---- MODULE Spec2Model ----
(***************************************************************************)
(* ruild: build single files from @build comments (src/src/main.rs).       *)
(*                                                                         *)
(* Strings are TLA+ strings; a character is a string of length one.        *)
(* Option<T> is modelled as a tuple: None is <<>>, Some(v) is <<v>>.       *)
(* A value that the code binds once and uses several times is passed as a  *)
(* parameter to a helper operator that holds the rest of the function.     *)
(***************************************************************************)
EXTENDS Integers, Sequences, FiniteSets, TLC

(***************************************************************************)
(* String primitives of the Rust standard library used by the program.     *)
(***************************************************************************)
None == <<>>
Some(v) == <<v>>

Ch(s, i) == SubSeq(s, i, i)

Lowers == "abcdefghijklmnopqrstuvwxyz"
Uppers == "ABCDEFGHIJKLMNOPQRSTUVWXYZ"
Digits == "0123456789"

LowerSet == {Ch(Lowers, i) : i \in 1..Len(Lowers)}
UpperSet == {Ch(Uppers, i) : i \in 1..Len(Uppers)}
DigitSet == {Ch(Digits, i) : i \in 1..Len(Digits)}

UpperToLower == [c \in UpperSet |-> Ch(Lowers, CHOOSE i \in 1..Len(Uppers) : Ch(Uppers, i) = c)]

\* the least element of a non-empty set of integers
Min(S) == CHOOSE i \in S : \A j \in S : i <= j

\* the least element of a set of positive integers, 0 when it is empty
MinOrZero(S) == IF S = {} THEN 0 ELSE Min(S)

\* char::is_ascii_alphanumeric, and the regex class [A-Za-z0-9]
is_ascii_alphanumeric(c) == c \in LowerSet \/ c \in UpperSet \/ c \in DigitSet

\* char::is_whitespace / regex \s, on the characters the model uses
is_whitespace(c) == c \in {" ", "\t"}

\* char::to_ascii_lowercase
char_to_ascii_lowercase(c) == IF c \in UpperSet THEN UpperToLower[c] ELSE c

RECURSIVE to_ascii_lowercase(_)
\* str::to_ascii_lowercase
to_ascii_lowercase(s) ==
    IF s = "" THEN ""
    ELSE char_to_ascii_lowercase(Ch(s, 1)) \o to_ascii_lowercase(SubSeq(s, 2, Len(s)))

\* the first index >= i of s whose character is not whitespace (Len(s)+1 if none)
SkipSpace(s, i) ==
    CHOOSE j \in i..(Len(s) + 1) :
        /\ \A k \in i..(j - 1) : is_whitespace(Ch(s, k))
        /\ (j = Len(s) + 1 \/ ~is_whitespace(Ch(s, j)))

\* str::trim_start
trim_start(s) == SubSeq(s, SkipSpace(s, 1), Len(s))

\* the last index of s whose character is not whitespace (0 if none)
LastNonSpace(s) ==
    CHOOSE i \in 0..Len(s) :
        /\ \A j \in (i + 1)..Len(s) : is_whitespace(Ch(s, j))
        /\ (i = 0 \/ ~is_whitespace(Ch(s, i)))

\* str::trim_end
trim_end(s) == SubSeq(s, 1, LastNonSpace(s))

\* str::trim
trim(s) == trim_end(trim_start(s))

\* str::starts_with
starts_with(s, p) == Len(p) <= Len(s) /\ SubSeq(s, 1, Len(p)) = p

\* str::ends_with
ends_with(s, p) == Len(p) <= Len(s) /\ SubSeq(s, Len(s) - Len(p) + 1, Len(s)) = p

\* the positions (1-based) at which p occurs in s
Occurrences(s, p) == {i \in 1..(Len(s) - Len(p) + 1) : SubSeq(s, i, i + Len(p) - 1) = p}

\* str::find, 1-based; 0 when p does not occur
find(s, p) == MinOrZero(Occurrences(s, p))

\* str::contains
contains(s, p) == Occurrences(s, p) # {}

RECURSIVE replace(_, _, _)
\* str::replace with the first occurrence of k at i (0: none)
ReplaceAt(s, k, v, i) ==
    IF i = 0 THEN s
    ELSE SubSeq(s, 1, i - 1) \o v \o replace(SubSeq(s, i + Len(k), Len(s)), k, v)

\* str::replace: every non-overlapping occurrence of k, left to right
replace(s, k, v) == ReplaceAt(s, k, v, find(s, k))

\* the first index >= i of s whose character is not alphanumeric (Len(s)+1 if none)
AlnumRunEnd(s, i) ==
    CHOOSE j \in i..(Len(s) + 1) :
        /\ \A k \in i..(j - 1) : is_ascii_alphanumeric(Ch(s, k))
        /\ (j = Len(s) + 1 \/ ~is_ascii_alphanumeric(Ch(s, j)))

(***************************************************************************)
(* Comment extraction and directive detection.                             *)
(***************************************************************************)

\* t minus a leading "-->", if it has one
StripCloser(u) == IF starts_with(u, "-->") THEN SubSeq(u, 4, Len(u)) ELSE u

\* the tail  \s*(?:-->)?\s*$  of the <!-- pattern
IsHtmlTail(t) == trim_start(StripCloser(trim_start(t))) = ""

\* the tail  \s*\*\)$  of the (* pattern
IsMlTail(t) == trim_start(t) = "*)"

\* the lengths of the prefixes of r whose rest is a tail of the <!-- pattern
HtmlPrefixes(r) == {k \in 0..Len(r) : IsHtmlTail(SubSeq(r, k + 1, Len(r)))}

\* the lazy capture (.*?) of the <!-- pattern: the shortest such prefix
HtmlCapture(r) == SubSeq(r, 1, Min(HtmlPrefixes(r)))

\* the lengths of the prefixes of r whose rest is a tail of the (* pattern
MlPrefixes(r) == {k \in 0..Len(r) : IsMlTail(SubSeq(r, k + 1, Len(r)))}

\* the lazy capture (.*?) of the (* pattern: the shortest such prefix
MlCapture(r) == SubSeq(r, 1, Min(MlPrefixes(r)))

\* ^\(\*\s*(.*?)\s*\*\)$  on what follows "(*" and whitespace
MlComment(r) ==
    IF MlPrefixes(r) = {} THEN None ELSE Some(MlCapture(r))

\* is_comment on the trimmed line
CommentOf(s) ==
    IF starts_with(s, "#") THEN Some(trim_start(SubSeq(s, 2, Len(s))))
    ELSE IF starts_with(s, "//") THEN Some(trim_start(SubSeq(s, 3, Len(s))))
    ELSE IF starts_with(s, "<!--")
        THEN Some(HtmlCapture(trim_start(SubSeq(s, 5, Len(s)))))
    ELSE IF starts_with(s, "(*") THEN MlComment(trim_start(SubSeq(s, 3, Len(s))))
    ELSE None

is_comment(line) == CommentOf(trim(line))

\* the captures of the directive pattern: the tag is c[j1..j2-1], the
\* command what follows the whitespace at j2
DirectiveSplit(c, j1, j2) ==
    IF j2 <= Len(c) /\ is_whitespace(Ch(c, j2))
    THEN Some([ty |-> SubSeq(c, j1, j2 - 1), cmd |-> trim_start(SubSeq(c, j2, Len(c)))])
    ELSE None

DirectiveFrom(c, j1) == DirectiveSplit(c, j1, AlnumRunEnd(c, j1))

\* the match of  @build-?([A-Za-z0-9]*)\s+(.*)$  starting at position i of c
DirectiveAt(c, i) ==
    DirectiveFrom(c, IF i + 6 <= Len(c) /\ Ch(c, i + 6) = "-" THEN i + 7 ELSE i + 6)

\* the leftmost match among the positions `at`
FirstDirective(c, at) == IF at = {} THEN None ELSE DirectiveAt(c, Min(at))

DirectiveIn(c) ==
    FirstDirective(c, {i \in Occurrences(c, "@build") : DirectiveAt(c, i) # None})

DetectIn(content) == IF content = None THEN None ELSE DirectiveIn(content[1])

detect(line) == DetectIn(is_comment(line))

(***************************************************************************)
(* Template expansion.                                                     *)
(***************************************************************************)

\* characters of a capture-group name in a replacement string ($name)
IsGroupNameChar(c) == is_ascii_alphanumeric(c) \/ c = "_"

GroupNameEnd(s, i) ==
    CHOOSE j \in i..(Len(s) + 1) :
        /\ \A k \in i..(j - 1) : IsGroupNameChar(Ch(s, k))
        /\ (j = Len(s) + 1 \/ ~IsGroupNameChar(Ch(s, j)))

\* the value of capture group `name` of a pattern that has no group but
\* group 0, the whole match
GroupValue(name, whole) ==
    IF name # "" /\ \A k \in 1..Len(name) : Ch(name, k) = "0" THEN whole ELSE ""

RECURSIVE Interpolate(_, _)
\* ${name}: close is the position of "}" in what follows "${" (0: none)
InterpolateBrace(rep, whole, close) ==
    IF close = 0 THEN "$" \o Interpolate(SubSeq(rep, 2, Len(rep)), whole)
    ELSE GroupValue(SubSeq(rep, 3, close + 1), whole)
             \o Interpolate(SubSeq(rep, close + 3, Len(rep)), whole)

\* $name: the name is rep[2..e-1]
InterpolateName(rep, whole, e) ==
    IF e = 2 THEN "$" \o Interpolate(SubSeq(rep, 2, Len(rep)), whole)
    ELSE GroupValue(SubSeq(rep, 2, e - 1), whole)
             \o Interpolate(SubSeq(rep, e, Len(rep)), whole)

\* regex::Regex::replace_all with a &str replacement: $$ is a dollar sign,
\* $name and ${name} are capture groups, empty when there is no such group
Interpolate(rep, whole) ==
    IF rep = "" THEN ""
    ELSE IF Ch(rep, 1) # "$"
        THEN Ch(rep, 1) \o Interpolate(SubSeq(rep, 2, Len(rep)), whole)
    ELSE IF Len(rep) >= 2 /\ Ch(rep, 2) = "$"
        THEN "$" \o Interpolate(SubSeq(rep, 3, Len(rep)), whole)
    ELSE IF Len(rep) >= 2 /\ Ch(rep, 2) = "{"
        THEN InterpolateBrace(rep, whole, find(SubSeq(rep, 3, Len(rep)), "}"))
    ELSE InterpolateName(rep, whole, GroupNameEnd(rep, 2))

RECURSIVE ExpandTokens(_, _)
\* the '%' at i of template, followed by the alphanumerics up to e - 1
ExpandToken(template, base, i, e) ==
    IF e = i + 1
    THEN SubSeq(template, 1, i) \o ExpandTokens(SubSeq(template, i + 1, Len(template)), base)
    ELSE SubSeq(template, 1, i - 1)
             \o "\"" \o base \o SubSeq(template, i + 1, e - 1) \o "\""
             \o ExpandTokens(SubSeq(template, e, Len(template)), base)

ExpandTokensAt(template, base, i) ==
    IF i = 0 THEN template ELSE ExpandToken(template, base, i, AlnumRunEnd(template, i + 1))

\* first pass: %<alnum+>  ->  "<base><alnum+>"
ExpandTokens(template, base) == ExpandTokensAt(template, base, find(template, "%"))

expand_template(template, base) ==
    replace(ExpandTokens(template, base), "%", Interpolate(base, "%"))

(***************************************************************************)
(* Package manager, paths, type tags.                                      *)
(***************************************************************************)
LockFiles == {"pnpm-lock.yaml", "yarn.lock", "bun.lockb"}

\* pick_package_manager with the yarn test placed before the pnpm test
pick_package_manager_yarn_first(dir) ==
    IF "yarn.lock" \in dir THEN "Yarn"
    ELSE IF "pnpm-lock.yaml" \in dir THEN "Pnpm"
    ELSE IF "bun.lockb" \in dir THEN "Bun"
    ELSE "Npm"

\* dir is the set of lock files present in the directory
pick_package_manager(dir) ==
    IF "pnpm-lock.yaml" \in dir THEN "Pnpm"
    ELSE IF "yarn.lock" \in dir THEN "Yarn"
    ELSE IF "bun.lockb" \in dir THEN "Bun"
    ELSE "Npm"

pm_str(pm) ==
    CASE pm = "Npm" -> "npm" [] pm = "Yarn" -> "yarn"
      [] pm = "Pnpm" -> "pnpm" [] pm = "Bun" -> "bun"

pm_start(pm) ==
    CASE pm = "Npm" -> "npm start" [] pm = "Yarn" -> "yarn start"
      [] pm = "Pnpm" -> "pnpm start" [] pm = "Bun" -> "bun run start"

pm_test(pm) ==
    CASE pm = "Npm" -> "npm test" [] pm = "Yarn" -> "yarn test"
      [] pm = "Pnpm" -> "pnpm test" [] pm = "Bun" -> "bun run test"

pm_install(pm) ==
    CASE pm = "Npm" -> "npm install" [] pm = "Yarn" -> "yarn install"
      [] pm = "Pnpm" -> "pnpm install" [] pm = "Bun" -> "bun install"

RECURSIVE normalize_type(_)
normalize_type(t) ==
    IF t = "" THEN ""
    ELSE (IF is_ascii_alphanumeric(Ch(t, 1)) THEN char_to_ascii_lowercase(Ch(t, 1)) ELSE "")
             \o normalize_type(SubSeq(t, 2, Len(t)))

\* Option<&str>::map(normalize_type)
NormalizedType(ty) == IF ty = None THEN None ELSE Some(normalize_type(ty[1]))

\* the last position of a '.' in name, 0 when there is none
LastDot(dots) == IF dots = {} THEN 0 ELSE CHOOSE i \in dots : \A j \in dots : j <= i

\* the position of the '.' that splits stem and extension; 0 when there is
\* none or when it is the leading character
AtSplit(last) == IF last <= 1 THEN 0 ELSE last

SplitDot(name) == AtSplit(LastDot(Occurrences(name, ".")))

StemAt(name, dot) == IF dot = 0 THEN name ELSE SubSeq(name, 1, dot - 1)

ExtAt(name, dot) == IF dot = 0 THEN "" ELSE SubSeq(name, dot + 1, Len(name))

\* Path::file_stem, Path::extension for a path that is a plain file name
file_stem(name) == StemAt(name, SplitDot(name))

extension(name) == ExtAt(name, SplitDot(name))

BaseOf(stem, ext) == [base |-> IF ext = "" THEN stem ELSE stem \o ".", ext |-> ext]

base_and_ext(filename) == BaseOf(file_stem(filename), extension(filename))

\* the working directory as displayed; every file of the model lives in it
WorkDir == "/w"

\* the replacements of expand_vars, in their order, for package manager pm
ReplaceVars(s, filename, pm, ty_norm) ==
    replace(
     replace(
      replace(
       replace(
        replace(
         replace(
          replace(
           replace(s, "{{file}}", "\"" \o filename \o "\""),
           "{{file_stem}}", "\"" \o file_stem(filename) \o "\""),
          "{{dir}}", "\"" \o WorkDir \o "\""),
         "{{pm}}", pm_str(pm)),
        "{{pm_start}}", pm_start(pm)),
       "{{pm_test}}", pm_test(pm)),
      "{{pm_install}}", pm_install(pm)),
     "{{type}}", ty_norm)

\* ty is the Option<&str> requested type; dir the lock files of the workdir
expand_vars(s, filename, dir, ty) ==
    ReplaceVars(s, filename, pick_package_manager(dir),
                IF ty = None THEN "" ELSE normalize_type(ty[1]))

(***************************************************************************)
(* Defaults store.  A defaults file is the sequence of its lines.          *)
(***************************************************************************)

\* the end of the run [^\s:]+ starting at i
PatternEnd(s, i) ==
    CHOOSE j \in i..(Len(s) + 1) :
        /\ \A k \in i..(j - 1) : ~is_whitespace(Ch(s, k)) /\ Ch(s, k) # ":"
        /\ (j = Len(s) + 1 \/ is_whitespace(Ch(s, j)) \/ Ch(s, j) = ":")

IsTagChar(c) == is_ascii_alphanumeric(c) \/ c = "_" \/ c = "-"

\* the end of the run [A-Za-z0-9_-]+ starting at i
TagEnd(s, i) ==
    CHOOSE j \in i..(Len(s) + 1) :
        /\ \A k \in i..(j - 1) : IsTagChar(Ch(s, k))
        /\ (j = Len(s) + 1 \/ ~IsTagChar(Ch(s, j)))

\* the tail  :\s*(.*)$  at position c of s: Some(capture) or None
ColonAt(s, c) ==
    IF c <= Len(s) /\ Ch(s, c) = ":"
    THEN Some(SubSeq(s, SkipSpace(s, c + 1), Len(s)))
    ELSE None

\* the tail  \s*:\s*(.*)$  at position i of s: Some(capture) or None
ColonTail(s, i) == ColonAt(s, SkipSpace(s, i))

ExtWith(ext, tail) == IF tail = None THEN None ELSE Some([ext |-> ext, cmd |-> tail[1]])

ExtRecord(t, e) == IF e = 1 THEN None ELSE ExtWith(SubSeq(t, 1, e - 1), ColonTail(t, e))

\* ^([A-Za-z0-9]+)\s*:\s*(.*)$
re_ext(t) == ExtRecord(t, AlnumRunEnd(t, 1))

\* the pattern is t[6..p-1] and no tag follows: the rest must be the colon tail
FileUntagged(t, p, tail) ==
    IF tail = None THEN None
    ELSE Some([pat |-> SubSeq(t, 6, p - 1), ty |-> None, cmd |-> tail[1]])

\* the tag is t[q+1..r-1]: the rest must be the colon tail
FileTaggedTail(t, p, q, r, tail) ==
    IF tail = None THEN FileUntagged(t, p, ColonTail(t, p))
    ELSE Some([pat |-> SubSeq(t, 6, p - 1), ty |-> Some(SubSeq(t, q + 1, r - 1)),
               cmd |-> tail[1]])

\* a '-' stands at q after whitespace: the tag runs to r - 1
FileTagged(t, p, q, r) ==
    IF r > q + 1 THEN FileTaggedTail(t, p, q, r, ColonTail(t, r))
    ELSE FileUntagged(t, p, ColonTail(t, p))

\* the pattern ends before p, the whitespace after it before q
FileAfterPattern(t, p, q) ==
    IF q > p /\ q <= Len(t) /\ Ch(t, q) = "-" THEN FileTagged(t, p, q, TagEnd(t, q + 1))
    ELSE FileUntagged(t, p, ColonTail(t, p))

FileRecord(t, p) == IF p = 6 THEN None ELSE FileAfterPattern(t, p, SkipSpace(t, p))

\* ^file:([^\s:]+)(?:\s+-([A-Za-z0-9_-]+))?\s*:\s*(.*)$
re_file(t) == IF ~starts_with(t, "file:") THEN None ELSE FileRecord(t, PatternEnd(t, 6))

\* HashMap::insert
MapInsert(m, k, v) == [x \in DOMAIN m \cup {k} |-> IF x = k THEN v ELSE m[x]]

EmptyCfg == [ext_map |-> <<>>, file_rules |-> <<>>]

\* the two record shapes tried on a line: f is re_file's match, e re_ext's
ParseRecord(cfg, f, e) ==
    IF f # None
    THEN [cfg EXCEPT !.file_rules =
             Append(@, [pattern |-> f[1].pat, ty |-> NormalizedType(f[1].ty),
                        cmd |-> f[1].cmd])]
    ELSE IF e # None
    THEN [cfg EXCEPT !.ext_map = MapInsert(@, to_ascii_lowercase(e[1].ext), e[1].cmd)]
    ELSE cfg

ParseTrimmed(cfg, t) ==
    IF t = "" \/ starts_with(t, "#") THEN cfg ELSE ParseRecord(cfg, re_file(t), re_ext(t))

\* the body of the loop of parse_defaults_str for one line
ParseLine(cfg, line) == ParseTrimmed(cfg, trim(line))

RECURSIVE ParseFrom(_, _, _)
ParseFrom(cfg, lines, i) ==
    IF i > Len(lines) THEN cfg ELSE ParseFrom(ParseLine(cfg, lines[i]), lines, i + 1)

parse_defaults_str(lines) == ParseFrom(EmptyCfg, lines, 1)

\* defaults is the Option of the defaults file: None when there is no
\* config path or the file can be neither found nor created
load_defaults_cfg(defaults) ==
    IF defaults = None THEN None ELSE Some(parse_defaults_str(defaults[1]))

\* the name test of a file rule, on the lowercased pattern and name
NameMatches(lpat, lname) ==
    IF ends_with(lpat, "*") THEN starts_with(lname, SubSeq(lpat, 1, Len(lpat) - 1))
    ELSE lname = lpat

\* whether file rule r matches the lowercased name and normalized type
RuleMatches(r, lname, tnorm) ==
    /\ NameMatches(to_ascii_lowercase(r.pattern), lname)
    /\ (r.ty = None \/ (tnorm # None /\ r.ty[1] = tnorm[1]))

\* the command of the first of the rules `hits`
FirstRule(cfg, hits) == IF hits = {} THEN None ELSE Some(cfg.file_rules[Min(hits)].cmd)

MatchNormalized(cfg, lname, tnorm) ==
    FirstRule(cfg, {i \in 1..Len(cfg.file_rules) : RuleMatches(cfg.file_rules[i], lname, tnorm)})

\* match_file_rule in which a later matching rule overrides an earlier one
match_file_rule_last(cfg, name, ty) ==
    IF MatchNormalized(cfg, to_ascii_lowercase(name), NormalizedType(ty)) = None THEN None
    ELSE Some(cfg.file_rules[
             CHOOSE i \in 1..Len(cfg.file_rules) :
                 /\ RuleMatches(cfg.file_rules[i], to_ascii_lowercase(name), NormalizedType(ty))
                 /\ \A k \in (i + 1)..Len(cfg.file_rules) :
                        ~RuleMatches(cfg.file_rules[k], to_ascii_lowercase(name),
                                     NormalizedType(ty))].cmd)

match_file_rule(cfg, name, ty) ==
    MatchNormalized(cfg, to_ascii_lowercase(name), NormalizedType(ty))

\* whether a line of the defaults file is the record of extension `want`
IsExtLine(m, want) == m # None /\ to_ascii_lowercase(m[1].ext) = want

FirstExtLine(lines, hits) == IF hits = {} THEN None ELSE Some(re_ext(lines[Min(hits)])[1].cmd)

ReadLines(lines, want) ==
    FirstExtLine(lines, {i \in 1..Len(lines) : IsExtLine(re_ext(lines[i]), want)})

read_defaults(defaults, ext) ==
    IF defaults = None THEN None ELSE ReadLines(defaults[1], to_ascii_lowercase(ext))

(***************************************************************************)
(* Built-in project conventions (compiled for the tests only).             *)
(***************************************************************************)
ComposeOf(t) ==
    IF t = None THEN "docker compose up -d"
    ELSE IF t[1] \in {"composedown", "down", "dcdown"} THEN "docker compose down"
    ELSE IF t[1] \in {"composebuild", "build", "dcbuild"} THEN "docker compose build"
    ELSE IF t[1] \in {"composepull", "pull", "dcpull"} THEN "docker compose pull"
    ELSE IF t[1] \in {"composelogs", "logs", "dclogs"} THEN "docker compose logs -f"
    ELSE IF t[1] \in {"composeps", "ps", "dcps"} THEN "docker compose ps"
    ELSE IF t[1] \in {"composestop", "stop", "dcstop"} THEN "docker compose stop"
    ELSE IF t[1] \in {"composestart", "start", "dcstart"} THEN "docker compose start"
    ELSE IF t[1] \in {"composerestart", "restart", "dcrestart"} THEN "docker compose restart"
    ELSE IF t[1] \in {"composerecreate", "recreate"} THEN "docker compose up -d --force-recreate"
    ELSE IF t[1] \in {"composeprune", "prune"} THEN "docker compose down --volumes --remove-orphans"
    ELSE "docker compose up -d"

compose_cmd(ty) == ComposeOf(NormalizedType(ty))

ScriptOf(pm, s) ==
    CASE pm = "Npm" -> (IF s \in {"install", "start", "test"} THEN "npm " \o s
                        ELSE "npm run " \o s)
      [] pm = "Yarn" -> "yarn " \o s
      [] pm = "Pnpm" -> "pnpm " \o s
      [] pm = "Bun" -> (IF s = "install" THEN "bun install" ELSE "bun run " \o s)

pm_script(pm, script) == ScriptOf(pm, to_ascii_lowercase(script))

\* the script name chosen for package.json from the normalized type
package_script(tnorm) ==
    IF tnorm = None THEN "build"
    ELSE IF tnorm[1] \in {"start", "npmstart"} THEN "start"
    ELSE IF tnorm[1] \in {"test", "npmtest"} THEN "test"
    ELSE IF tnorm[1] \in {"build", "npmbuild"} THEN "build"
    ELSE IF tnorm[1] \in {"lint", "npmlint"} THEN "lint"
    ELSE IF tnorm[1] \in {"format", "npmformat", "fmt"} THEN "format"
    ELSE IF tnorm[1] \in {"dev", "npmdev"} THEN "dev"
    ELSE IF tnorm[1] \in {"clean", "npmclean"} THEN "clean"
    ELSE IF tnorm[1] \in {"install", "npminstall"} THEN "install"
    ELSE "build"

\* project_command_for_file on the lowercased file name
ProjectCommand(type_expected, path, dir, name) ==
    IF name = "book.toml" THEN Some("mdbook build")
    ELSE IF name \in {"mkdocs.yml", "mkdocs.yaml"} THEN Some("mkdocs build")
    ELSE IF name = "conf.py" THEN Some("sphinx-build -b html . _build/html")
    ELSE IF starts_with(name, "doxyfile") THEN Some("doxygen " \o path)
    ELSE IF name \in {"docker-compose.yml", "docker-compose.yaml",
                      "compose.yml", "compose.yaml"}
        THEN Some(compose_cmd(type_expected))
    ELSE IF name = "package.json"
        THEN Some(pm_script(pick_package_manager(dir),
                            package_script(NormalizedType(type_expected))))
    ELSE None

\* path is a plain file name, dir the lock files of its directory
project_command_for_file(type_expected, path, dir) ==
    ProjectCommand(type_expected, path, dir, to_ascii_lowercase(path))

(***************************************************************************)
(* Resolution chain.                                                       *)
(***************************************************************************)
AppendPart(cmd, part) ==
    IF part = "" THEN cmd
    ELSE IF cmd # "" /\ ~ends_with(cmd, " ") THEN cmd \o " " \o part
    ELSE cmd \o part

append_command_segment(cmd, fragment) == AppendPart(cmd, trim(fragment))

RECURSIVE collect_html_command(_, _, _)
\* the line i, trimmed, holds "-->" at idx (0: it does not)
CollectAt(cmd, lines, i, trimmed, idx) ==
    IF idx # 0
    THEN [cmd |-> append_command_segment(cmd, SubSeq(trimmed, 1, idx - 1)), next |-> i + 1]
    ELSE collect_html_command(append_command_segment(cmd, trimmed), lines, i + 1)

CollectLine(cmd, lines, i, trimmed) == CollectAt(cmd, lines, i, trimmed, find(trimmed, "-->"))

\* lines[i..] is what the iterator still holds; the result carries the
\* assembled command and the index of the first line left in the iterator
collect_html_command(cmd, lines, i) ==
    IF i > Len(lines) THEN [cmd |-> cmd, next |-> i]
    ELSE CollectLine(cmd, lines, i, trim(lines[i]))

IsOpenHtml(trimmed) == starts_with(trimmed, "<!--") /\ ~contains(trimmed, "-->")

is_multiline_html(line) == IsOpenHtml(trim_start(line))

\* ok_type without the comparison of the tags
ok_type_nonempty(type_expected, ty) ==
    IF type_expected = None THEN TRUE ELSE ty # ""

\* ok_type that lets an untagged directive answer any requested type
ok_type_untagged_any(type_expected, ty) ==
    IF type_expected = None THEN TRUE ELSE ty = "" \/ ty = type_expected[1]

\* the type test of build_file on a detected directive
ok_type(type_expected, ty) ==
    IF type_expected = None THEN TRUE ELSE ty # "" /\ ty = type_expected[1]

Assembled(ty, i, col) == [ty |-> ty, tpl |-> col.cmd, line |-> i, next |-> col.next]

\* Assemble that leaves the lines of a multi-line comment to the scan
AssembleRescans(d, lines, i) ==
    Assembled(d.ty, i,
              IF is_multiline_html(lines[i])
              THEN [cmd |-> collect_html_command(d.cmd, lines, i + 1).cmd, next |-> i + 1]
              ELSE [cmd |-> d.cmd, next |-> i + 1])

Assemble(d, lines, i) ==
    Assembled(d.ty, i,
              IF is_multiline_html(lines[i]) THEN collect_html_command(d.cmd, lines, i + 1)
              ELSE [cmd |-> d.cmd, next |-> i + 1])

\* the directive read at line i: its tag, its template once a multi-line
\* HTML comment is assembled, and the first line left to scan after it
DirectiveOf(lines, i) == Assemble(detect(lines[i])[1], lines, i)

RECURSIVE InlineScan(_, _, _)
\* the directive d was read: run it, or go on scanning after it
Select(type_expected, lines, d) ==
    IF ok_type(type_expected, d.ty) /\ d.tpl # "" THEN Some(d)
    ELSE InlineScan(type_expected, lines, d.next)

\* the while loop of build_file from line i on: Some(directive) that is
\* run, or None when the scan reaches the end of the file
InlineScan(type_expected, lines, i) ==
    IF i > Len(lines) THEN None
    ELSE IF detect(lines[i]) = None THEN InlineScan(type_expected, lines, i + 1)
    ELSE Select(type_expected, lines, DirectiveOf(lines, i))

\* what the shell spawn can do: fail, or run the command to an exit status
SpawnOutcomes == {"spawn_failed", "exit0", "exit1"}

\* run_command: the expanded command line and whether the shell was spawned
run_command(build_tpl, base, dir, filename, ty, spawn) ==
    [cmdline |-> expand_vars(expand_template(build_tpl, base), filename, dir, ty),
     ok |-> spawn # "spawn_failed"]

\* build_file returns false without running anything
NotRun(tier) ==
    [ok |-> FALSE, tier |-> tier, tpl |-> "", cmdline |-> None, line |-> 0,
     status |-> "not_run"]

Outcome(tier, tpl, line, spawn, r) ==
    [ok |-> r.ok, tier |-> tier, tpl |-> tpl, cmdline |-> Some(r.cmdline),
     line |-> line, status |-> spawn]

\* build_file returns run_command on the template of a tier
Ran(tier, tpl, line, filename, dir, ty, spawn) ==
    Outcome(tier, tpl, line, spawn,
            run_command(tpl, base_and_ext(filename).base, dir, filename, ty, spawn))

\* the extension-default tier; dflt is read_defaults(ext)
FromExtension(dflt, type_expected, filename, dir, spawn) ==
    IF dflt # None THEN Ran("ext_default", dflt[1], 0, filename, dir, type_expected, spawn)
    ELSE NotRun("none")

\* the file-rule tier preceded by the built-in project conventions
FromFileRuleProject(rule, type_expected, filename, defaults, dir, spawn) ==
    IF project_command_for_file(type_expected, filename, dir) # None
    THEN Ran("project", project_command_for_file(type_expected, filename, dir)[1], 0,
             filename, dir, type_expected, spawn)
    ELSE IF rule # None
    THEN Ran("file_rule", rule[1], 0, filename, dir, type_expected, spawn)
    ELSE FromExtension(read_defaults(defaults, base_and_ext(filename).ext),
                       type_expected, filename, dir, spawn)

\* the file-rule tier; rule is the match of the file rules
FromFileRule(rule, type_expected, filename, defaults, dir, spawn) ==
    IF rule # None THEN Ran("file_rule", rule[1], 0, filename, dir, type_expected, spawn)
    ELSE FromExtension(read_defaults(defaults, base_and_ext(filename).ext),
                       type_expected, filename, dir, spawn)

FileRuleOf(cfg, filename, type_expected) ==
    IF cfg = None THEN None ELSE match_file_rule(cfg[1], filename, type_expected)

\* Resolve with the file rules consulted before the inline directive
ResolveRuleFirst(inline, type_expected, filename, defaults, dir, spawn) ==
    IF inline # None /\ FileRuleOf(load_defaults_cfg(defaults), filename, type_expected) = None
    THEN Ran("inline", inline[1].tpl, inline[1].line, filename, dir, type_expected, spawn)
    ELSE FromFileRule(FileRuleOf(load_defaults_cfg(defaults), filename, type_expected),
                      type_expected, filename, defaults, dir, spawn)

\* build_file after the scan of the file; inline is the directive to run
Resolve(inline, type_expected, filename, defaults, dir, spawn) ==
    IF inline # None
    THEN Ran("inline", inline[1].tpl, inline[1].line, filename, dir, type_expected, spawn)
    ELSE FromFileRule(FileRuleOf(load_defaults_cfg(defaults), filename, type_expected),
                      type_expected, filename, defaults, dir, spawn)

\* build_file that only skips the scan of a file it cannot open
build_file_falls_through(type_expected, filename, content, defaults, dir, spawn) ==
    Resolve(IF content = None THEN None ELSE InlineScan(type_expected, content[1], 1),
            type_expected, filename, defaults, dir, spawn)

\* content: Option of the file's lines (None: the file cannot be opened);
\* defaults: Option of the defaults file; dir: lock files of the workdir
build_file(type_expected, filename, content, defaults, dir, spawn) ==
    IF content = None THEN NotRun("unreadable")
    ELSE Resolve(InlineScan(type_expected, content[1], 1),
                 type_expected, filename, defaults, dir, spawn)

\* check_build_file that takes a non-zero exit status of the command for a failure
check_build_file_status(out) == IF out.ok /\ out.status = "exit0" THEN 0 ELSE 1

check_build_file(out) == IF out.ok THEN 0 ELSE 1

(***************************************************************************)
(* The input space.                                                        *)
(***************************************************************************)
MaxArgs == 3

FileNames == {"doc.md", "Doc.MD", "book.toml", "package.json", "x$y.file", "p%q.md"}

\* requested types of the single-file command lines
TypeTags == {"down", "Down", "Do-wn", "up"}

Contents ==
    { <<>>,
      <<"text">>,
      <<"# @build echo a", "text">>,
      <<"text", "// @build-down echo %pdf", "# @build echo a %">>,
      <<"# @build-Down echo D", "# @build-down echo d">>,
      <<"<!-- @build-down echo m", "more", "x > y --> z", "# @build-up {{pm}} run %js">>,
      <<"(* @build-up {{pm_test}} *)", "<!-- @build echo {{type}} -->">>,
      <<"<!-- @build-down echo m", "# @build-up echo in", "",
        "  tail --> # @build-up echo z", "# @build-up echo after">> }

DefaultsTexts ==
    { <<>>,
      <<"# defaults", "file:doc.md -down : echo r %md",
        "file:package.json : {{pm}} run build", "md : echo e %pdf">>,
      <<"file:doc.md : ", "md :", "json : {{pm_install}}">>,
      <<"file:Doc* -Up : echo u", "file:book.toml : mdbook build",
        "MD: pandoc %md", "md: second">>,
      <<"file:doc.md -Do_wn : echo tagged", "file:Doc* : echo star",
        "file:doc.md : echo exact", "file:x* : cat % {{file}}",
        "File : echo f {{file}}">> }

\* the defaults file as the program finds it: None when there is no config
\* path or the file can be neither found nor created
DefaultsStates == {None} \cup {Some(d) : d \in DefaultsTexts}

\* a file as the program finds it: None when it cannot be opened
FileStates == {None} \cup {Some(c) : c \in Contents}

\* the sample worlds of the longer command lines
Worlds ==
    { [fs |-> [f \in FileNames |-> IF f = "doc.md" THEN Some(<<"# @build echo a", "text">>)
                                  ELSE IF f = "book.toml" THEN Some(<<"text">>)
                                  ELSE None],
       defaults |-> Some(<<>>), locks |-> {}],
      [fs |-> [f \in FileNames |->
                  IF f = "doc.md"
                  THEN Some(<<"text", "// @build-down echo %pdf", "# @build echo a %">>)
                  ELSE Some(<<>>)],
       defaults |-> Some(<<"file:Doc* -Up : echo u", "file:book.toml : mdbook build",
                           "MD: pandoc %md", "md: second">>),
       locks |-> {"yarn.lock"}],
      [fs |-> [f \in FileNames |-> Some(<<"# @build-Down echo D", "# @build-down echo d">>)],
       defaults |-> None, locks |-> {"bun.lockb", "pnpm-lock.yaml"}] }

\* tokens of the longer command lines
ArgTokens == {"-down", "-Up", "doc.md", "book.toml", "--x", "--config_file", "--dump_defaults"}

\* the sequences `shorter`, and those of length n - 1 among them extended by S
Extend(shorter, S, n) ==
    shorter \cup {Append(q, t) : q \in {r \in shorter : Len(r) = n - 1}, t \in S}

RECURSIVE SeqsUpTo(_, _)
\* the sequences over S of length at most n
SeqsUpTo(S, n) ==
    IF n = 0 THEN {<<>>}
    ELSE Extend(SeqsUpTo(S, n - 1), S, n)

(***************************************************************************)
(* The program: main.                                                      *)
(***************************************************************************)
VARIABLES
    args,         \* the command line after argv[0]
    fs,           \* file name -> Option of the file's lines
    defaults,     \* Option of the defaults file's lines
    locks,        \* the lock files present in the working directory
    pc,           \* "start", "loop" or "exited"
    idx,          \* the index of the next argument of the loop
    ty,           \* the active type: Option<String>
    res,          \* the failure count
    exit_status,  \* the status given to process::exit, -1 before
    log           \* the build_file calls made so far

vars == <<args, fs, defaults, locks, pc, idx, ty, res, exit_status, log>>

env == <<args, fs, defaults, locks>>

InitMachine ==
    /\ pc = "start"
    /\ idx = 1
    /\ ty = None
    /\ res = 0
    /\ exit_status = -1
    /\ log = <<>>

\* a command line of at most one type flag and one file, in every world
InitSingle ==
    /\ \E f \in FileNames :
           \/ args = <<f>>
           \/ \E t \in TypeTags : args = <<"-" \o t, f>>
    /\ \E c \in FileStates : fs = [f \in FileNames |-> c]
    /\ defaults \in DefaultsStates
    /\ locks \in SUBSET LockFiles

\* a command line of up to MaxArgs tokens, in a sample world
InitLong ==
    /\ args \in SeqsUpTo(ArgTokens, MaxArgs)
    /\ \E w \in Worlds : fs = w.fs /\ defaults = w.defaults /\ locks = w.locks

Init == InitMachine /\ (InitSingle \/ InitLong)

IsInfoOption(a) == a = "--config_file" \/ a = "--dump_defaults"

InfoOptions == {i \in 1..Len(args) : IsInfoOption(args[i])}

FirstInfoOption == CHOOSE i \in InfoOptions : \A j \in InfoOptions : i <= j

ExitWith(status) ==
    /\ pc' = "exited"
    /\ exit_status' = status

\* no arguments: print the help and exit
Help ==
    /\ pc = "start"
    /\ args = <<>>
    /\ ExitWith(0)
    /\ UNCHANGED <<env, idx, ty, res, log>>

\* --config_file: print the config path, creating the file when missing; a
\* config path whose file cannot be created is an error
ConfigFile ==
    /\ pc = "start"
    /\ InfoOptions # {}
    /\ args[FirstInfoOption] = "--config_file"
    /\ \/ ExitWith(0)
       \/ defaults = None /\ ExitWith(1)
    /\ UNCHANGED <<env, idx, ty, res, log>>

\* --dump_defaults: print the bundled defaults and exit
DumpDefaults ==
    /\ pc = "start"
    /\ InfoOptions # {}
    /\ args[FirstInfoOption] = "--dump_defaults"
    /\ ExitWith(0)
    /\ UNCHANGED <<env, idx, ty, res, log>>

\* the argument loop is entered
Begin ==
    /\ pc = "start"
    /\ args # <<>>
    /\ InfoOptions = {}
    /\ pc' = "loop"
    /\ UNCHANGED <<env, idx, ty, res, exit_status, log>>

InLoop == pc = "loop" /\ idx <= Len(args)

\* an argument that starts with "--": usage error
UnknownOption ==
    /\ InLoop
    /\ starts_with(args[idx], "--")
    /\ ExitWith(2)
    /\ UNCHANGED <<env, idx, ty, res, log>>

\* SetType that keeps the first type given
SetTypeOnce ==
    /\ InLoop
    /\ ~starts_with(args[idx], "--")
    /\ starts_with(args[idx], "-") /\ Len(args[idx]) > 1
    /\ ty' = IF ty = None THEN Some(SubSeq(args[idx], 2, Len(args[idx]))) ELSE ty
    /\ idx' = idx + 1
    /\ UNCHANGED <<env, pc, res, exit_status, log>>

\* an argument "-<type>": set the build type
SetType ==
    /\ InLoop
    /\ ~starts_with(args[idx], "--")
    /\ starts_with(args[idx], "-") /\ Len(args[idx]) > 1
    /\ ty' = Some(SubSeq(args[idx], 2, Len(args[idx])))
    /\ idx' = idx + 1
    /\ UNCHANGED <<env, pc, res, exit_status, log>>

\* the outcome of a build_file call is counted and logged
Record(out) ==
    /\ res' = res + check_build_file(out)
    /\ log' = Append(log, [arg |-> idx, file |-> args[idx], ty |-> ty, out |-> out])

\* any other argument is a file: check_build_file
BuildFile ==
    /\ InLoop
    /\ ~starts_with(args[idx], "--")
    /\ ~(starts_with(args[idx], "-") /\ Len(args[idx]) > 1)
    /\ \E spawn \in SpawnOutcomes :
           Record(build_file(ty, args[idx], fs[args[idx]], defaults, locks, spawn))
    /\ idx' = idx + 1
    /\ UNCHANGED <<env, pc, ty, exit_status>>

\* the loop is over: exit with the failure count
Exit ==
    /\ pc = "loop"
    /\ idx > Len(args)
    /\ ExitWith(res)
    /\ UNCHANGED <<env, idx, ty, res, log>>

Next ==
    \/ Help
    \/ ConfigFile
    \/ DumpDefaults
    \/ Begin
    \/ UnknownOption
    \/ SetType
    \/ BuildFile
    \/ Exit

Spec == Init /\ [][Next]_vars

(***************************************************************************)
(* Properties.  They are stated on the build_file call just made: the      *)
(* state that follows a call holds it as the last entry of the log.        *)
(***************************************************************************)

\* the last build_file call: its argument index, file, requested type, outcome
Call == log[Len(log)]

\* a build_file call was just made
JustCalled == log # <<>> /\ pc = "loop" /\ idx = Call.arg + 1

Readable == fs[Call.file] # None

CallLines == fs[Call.file][1]

RECURSIVE ScannedDirectives(_, _)
\* the directive d was read: the scan goes on after it
ScannedAfter(lines, d) == <<d>> \o ScannedDirectives(lines, d.next)

\* the directives the scan of build_file reads from line i on when it runs
\* none of them, in order
ScannedDirectives(lines, i) ==
    IF i > Len(lines) THEN <<>>
    ELSE IF detect(lines[i]) = None THEN ScannedDirectives(lines, i + 1)
    ELSE ScannedAfter(lines, DirectiveOf(lines, i))

CallDirectives == ScannedDirectives(CallLines, 1)

\* a directive tag answers the request: no type is requested, or the tag is
\* the requested one
TagAnswers(requested, tag) == requested = None \/ tag = requested[1]

\* the directives among ds that answer the request with a non-empty template
Matching(ds, requested) ==
    {j \in 1..Len(ds) : TagAnswers(requested, ds[j].ty) /\ ds[j].tpl # ""}

\* what the file rules and the extension defaults hold for the file of the call
CallRule == FileRuleOf(load_defaults_cfg(defaults), Call.file, Call.ty)

CallDefault == read_defaults(defaults, extension(Call.file))

\* the outcome is that of the defaults store alone: the first matching file
\* rule, else the extension default, else nothing
FromStore(out, rule, dflt) ==
    IF rule # None THEN out.tier = "file_rule" /\ out.tpl = rule[1]
    ELSE IF dflt # None THEN out.tier = "ext_default" /\ out.tpl = dflt[1]
    ELSE out.tier = "none" /\ ~out.ok /\ out.status = "not_run"

ByDefaultsStore == FromStore(Call.out, CallRule, CallDefault)

\* the outcome runs the directive d
RunsDirective(c, d) ==
    /\ c.out.tier = "inline"
    /\ c.out.status # "not_run"
    /\ c.out.tpl = d.tpl
    /\ c.out.line = d.line
    /\ c.out.cmdline =
           Some(expand_vars(expand_template(d.tpl, base_and_ext(c.file).base),
                            c.file, locks, c.ty))

C1_On(c, ds, m) == m # {} => RunsDirective(c, ds[Min(m)])

\* C1: when the file holds an inline directive that answers the requested
\* type with a non-empty template, the command run is built from the
\* template of the first such directive, not from a file rule or an
\* extension default, whatever the defaults store holds.
C1_InlineWins ==
    (JustCalled /\ Readable) =>
        C1_On(Call, CallDirectives, Matching(CallDirectives, Call.ty))

\* C1 witness: an inline directive was run although a file rule and an
\* extension default match the file too
C1_Witness ==
    /\ JustCalled /\ Readable
    /\ Matching(CallDirectives, Call.ty) # {}
    /\ Call.out.tier = "inline"
    /\ CallRule # None /\ CallDefault # None

C2_On(c, lines, ds, m) ==
    /\ c.out.tier = "inline" => detect(lines[c.out.line])[1].ty = c.ty[1]
    /\ m # {} => c.out.line = ds[Min(m)].line
    /\ (\A j \in 1..Len(ds) : ds[j].ty # c.ty[1]) => ByDefaultsStore

\* C2: with a type requested, a directive whose tag differs from it is never
\* run and does not end the resolution: the scan goes on to the directives
\* that follow, and when no directive of the file answers the request the
\* file rules and then the extension defaults resolve the file.
C2_OtherTagSkipped ==
    (JustCalled /\ Readable /\ Call.ty # None) =>
        C2_On(Call, CallLines, CallDirectives, Matching(CallDirectives, Call.ty))

C2_WitnessOn(c, ds) ==
    /\ ds # <<>>
    /\ ds[1].ty # c.ty[1]
    /\ \/ c.out.tier = "inline" /\ c.out.line > ds[1].line
       \/ c.out.tier = "file_rule" /\ Matching(ds, c.ty) = {}

\* C2 witness: a directive with another tag stands before the directive
\* that is run, or the file's directives all have another tag and a file
\* rule resolves the file
C2_Witness ==
    /\ JustCalled /\ Readable /\ Call.ty # None
    /\ C2_WitnessOn(Call, CallDirectives)

\* the two outcomes have the same tier and the same command template
SameResolution(o1, o2) == o1.tier = o2.tier /\ o1.tpl = o2.tpl

\* the resolution of the call's file under another requested tag
ResolvedAs(tag) ==
    build_file(Some(tag), Call.file, fs[Call.file], defaults, locks, Call.out.status)

\* C3: requested tags that have the same normalization (lowercased,
\* non-alphanumerics removed) resolve a file to the same tier and the same
\* command template, in the inline tier as in the file-rule tier.
C3_NormalizedTags ==
    (JustCalled /\ Readable /\ Call.ty # None) =>
        \A t \in TypeTags :
            normalize_type(t) = normalize_type(Call.ty[1])
                => SameResolution(ResolvedAs(t), Call.out)

\* C4: a command is run only from a non-empty template, in every tier; when
\* no tier yields a non-empty template build_file returns false.
C4_NonEmptyTemplate ==
    JustCalled =>
        /\ Call.out.status # "not_run" => Call.out.tpl # ""
        /\ Call.out.tpl = "" => ~Call.out.ok

\* C5 as stated: a file that cannot be opened is still resolved by a file
\* rule or an extension default that matches its name.
C5_UnreadableFallsThrough ==
    (JustCalled /\ ~Readable /\ (CallRule # None \/ CallDefault # None)) =>
        /\ Call.out.tier \in {"file_rule", "ext_default"}
        /\ Call.out.status # "not_run"

\* C5 amended: when the file cannot be opened build_file returns false at
\* once: no tier is tried and no command is run, also when a file rule or
\* an extension default matches the file's name; the file counts as failed.
C5_UnreadableFails ==
    (JustCalled /\ ~Readable) =>
        /\ ~Call.out.ok
        /\ Call.out.tier = "unreadable"
        /\ Call.out.status = "not_run"
        /\ Call.out.cmdline = None
        /\ res >= 1

\* C5 witness: the file cannot be opened and a file rule matches its name
C5_Witness == JustCalled /\ ~Readable /\ CallRule # None /\ CallDefault # None

\* the file of the call is a built-in project entry point that no inline
\* directive resolved
ProjectFileCall ==
    /\ JustCalled /\ Readable
    /\ project_command_for_file(Call.ty, Call.file, locks) # None
    /\ Matching(CallDirectives, Call.ty) = {}

\* C6 as stated: a project entry point that no inline directive resolves is
\* resolved by the built-in project-convention command, whatever the
\* defaults store holds.
C6_ProjectConvention ==
    ProjectFileCall =>
        /\ Call.out.status # "not_run"
        /\ Call.out.tpl = project_command_for_file(Call.ty, Call.file, locks)[1]

\* C6 amended: build_file does not consult the built-in project-convention
\* table: a project entry point that no inline directive resolves is
\* resolved like any other file, by the first matching file rule of the
\* defaults store, else by the extension default, and is not resolved when
\* the store holds neither.
C6_ProjectByDefaultsStore == ProjectFileCall => ByDefaultsStore

\* C6 witness: a project entry point is not resolved, the defaults store
\* holding no rule and no extension entry for it
C6_Witness ==
    /\ ProjectFileCall
    /\ CallRule = None /\ CallDefault = None
    /\ Call.out.tier = "none"

\* C7 as stated: an untagged directive is selected whatever the requested
\* type, set or unset.
C7_UntaggedAnyType ==
    (/\ JustCalled /\ Readable /\ CallDirectives # <<>>
     /\ CallDirectives[1].ty = "" /\ CallDirectives[1].tpl # "")
        => RunsDirective(Call, CallDirectives[1])

C7_On(c, lines, ds) ==
    /\ (c.ty = None /\ ds # <<>>) => RunsDirective(c, ds[1])
    /\ (c.ty # None /\ c.out.tier = "inline") => detect(lines[c.out.line])[1].ty # ""
    /\ (c.ty # None /\ \A j \in 1..Len(ds) : ds[j].ty = "") => c.out.tier # "inline"

\* C7 amended: an untagged directive is selected only when no type is
\* requested: with no type requested the first directive of the file is
\* selected whatever its tag; with a type requested an untagged directive is
\* never selected.
C7_UntaggedOnlyUnrequested ==
    (JustCalled /\ Readable) => C7_On(Call, CallLines, CallDirectives)

\* C7 witness: a type is requested, the first directive of the file is
\* untagged, and it is not the one run
C7_Witness ==
    /\ JustCalled /\ Readable /\ Call.ty # None
    /\ CallDirectives # <<>>
    /\ CallDirectives[1].ty = ""
    /\ Call.out.line # CallDirectives[1].line

\* an argument that sets the type: "-<tag>", not "--..."
IsTypeFlag(a) == starts_with(a, "-") /\ Len(a) > 1 /\ ~starts_with(a, "--")

\* the tag of the nearest type flag before argument i, None when there is none
TagBefore(flags) ==
    IF flags = {} THEN None
    ELSE Some(SubSeq(args[CHOOSE j \in flags : \A k \in flags : k <= j], 2,
                     Len(args[CHOOSE j \in flags : \A k \in flags : k <= j])))

NearestTag(i) == TagBefore({j \in 1..(i - 1) : IsTypeFlag(args[j])})

\* C8: each file argument is resolved with the tag of the nearest type flag
\* before it, or with no tag when there is none; resolving a file does not
\* change the active tag, and a tag once set is never unset.
C8_ActiveTag ==
    [][/\ ty # None => ty' # None
       /\ Len(log') > Len(log) =>
              /\ ty' = ty
              /\ log'[Len(log')].ty = NearestTag(log'[Len(log')].arg)
              /\ log'[Len(log')].file = args[log'[Len(log')].arg]]_vars

\* C8 witness: a file was resolved after two type flags, with the second tag
C8_Witness ==
    /\ JustCalled
    /\ Call.arg = 3 /\ IsTypeFlag(args[1]) /\ IsTypeFlag(args[2])
    /\ args[1] # args[2]
    /\ Call.ty = Some(SubSeq(args[2], 2, Len(args[2])))

\* a call failed to resolve its file: nothing was run, or the shell could
\* not be spawned
Failed(e) == e.out.status \in {"not_run", "spawn_failed"}

FailedCalls == {k \in 1..Len(log) : Failed(log[k])}

FileArgs == {i \in 1..Len(args) : ~starts_with(args[i], "-") \/ Len(args[i]) = 1}

\* C9 as stated: once the argument loop is entered, the exit status is the
\* number of file arguments that failed to resolve.
C9_ExitIsFailureCount ==
    (pc = "exited" /\ args # <<>> /\ InfoOptions = {})
        => exit_status = Cardinality(FailedCalls)

\* C9 amended: when no argument starts with "--", every file argument is
\* resolved, failing or not, and the status that main gives to process::exit
\* is the number of file arguments that failed to resolve (nothing run, or
\* shell not spawned): 0 exactly when all succeeded, a command that exits
\* with a non-zero status adding nothing.  An argument that starts with "--"
\* ends the process with the status of that option instead.
C9_ExitStatus ==
    /\ res = Cardinality(FailedCalls)
    /\ (pc = "exited" /\ \A i \in 1..Len(args) : ~starts_with(args[i], "--")) =>
           /\ exit_status = Cardinality(FailedCalls)
           /\ {log[k].arg : k \in 1..Len(log)} = FileArgs
           /\ exit_status = 0 <=> \A k \in 1..Len(log) : ~Failed(log[k])

\* C9 witness: the process exited after a file that failed, a later file
\* whose command exited with a non-zero status, and the status is 1
C9_Witness ==
    /\ pc = "exited"
    /\ Len(log) >= 2
    /\ Failed(log[1])
    /\ log[2].out.status = "exit1"
    /\ exit_status = Cardinality(FailedCalls)

\* the package manager by lock-file priority, and its name
ByLockPriority(dir) ==
    CASE "pnpm-lock.yaml" \in dir -> "pnpm"
      [] "yarn.lock" \in dir /\ "pnpm-lock.yaml" \notin dir -> "yarn"
      [] dir = {"bun.lockb"} -> "bun"
      [] dir = {} -> "npm"

\* the command line it gives for the templates that name the package manager
PmCommand(tpl, name) ==
    CASE tpl = "{{pm}} run build" -> Some(name \o " run build")
      [] tpl = "{{pm_install}}" -> Some(name \o " install")
      [] tpl = "{{pm_test}}" -> Some(IF name = "bun" THEN "bun run test" ELSE name \o " test")
      [] OTHER -> None

\* C10: the package manager is chosen by lock-file presence with priority
\* pnpm-lock.yaml > yarn.lock > bun.lockb > npm, for every subset of lock
\* files; the {{pm}} placeholders of a command and the package.json command
\* use that choice.
C10_PackageManager ==
    JustCalled =>
        /\ pm_str(pick_package_manager(locks)) = ByLockPriority(locks)
        /\ PmCommand(Call.out.tpl, ByLockPriority(locks)) # None
               => Call.out.cmdline = PmCommand(Call.out.tpl, ByLockPriority(locks))
        /\ starts_with(project_command_for_file(Call.ty, "package.json", locks)[1],
                       ByLockPriority(locks) \o " ")

\* C10 witness: a command with a package-manager placeholder was run with
\* all three lock files present, and it names pnpm
C10_Witness ==
    /\ JustCalled
    /\ locks = LockFiles
    /\ Call.out.tpl = "{{pm}} run build"
    /\ Call.out.cmdline = Some("pnpm run build")

\* the file rules parsed from the defaults file of the call
CallRules == load_defaults_cfg(defaults)[1].file_rules

\* the rule r matches the file name and the requested type: the name equals
\* the pattern, or starts with what stands before the pattern's final "*",
\* letter case ignored; and the rule has no tag, or its tag is the
\* normalized requested tag
C11_Matches(r, name, requested) ==
    /\ \/ to_ascii_lowercase(name) = to_ascii_lowercase(r.pattern)
       \/ /\ ends_with(r.pattern, "*")
          /\ starts_with(to_ascii_lowercase(name),
                         to_ascii_lowercase(SubSeq(r.pattern, 1, Len(r.pattern) - 1)))
    /\ \/ r.ty = None
       \/ requested # None /\ r.ty[1] = normalize_type(requested[1])

C11_On(c, rules, m, found) ==
    /\ m = {} => found = None
    /\ m # {} => found = Some(rules[Min(m)].cmd)
    /\ (m # {} /\ c.ty = None) => rules[Min(m)].ty = None
    /\ (m # {} /\ c.out.tier \notin {"inline", "unreadable"}) =>
           c.out.tier = "file_rule" /\ c.out.tpl = rules[Min(m)].cmd

\* C11: match_file_rule returns the command of the first file rule, in
\* declaration order, that matches the file name (equal to the pattern, or
\* starting with the prefix of a pattern that ends with "*", letter case
\* ignored) and the requested type (rule without tag, or tag equal to the
\* normalized requested tag); a rule with a tag does not match when no
\* type is requested; no later rule overrides an earlier matching one.
C11_FirstRuleWins ==
    (JustCalled /\ defaults # None) =>
        C11_On(Call, CallRules,
               {j \in 1..Len(CallRules) : C11_Matches(CallRules[j], Call.file, Call.ty)},
               CallRule)

C11_WitnessOn(c, rules, m) ==
    /\ Cardinality(m) >= 2
    /\ rules[Min(m)].ty # None
    /\ rules[Min(m)].ty[1] # c.ty[1]
    /\ c.out.tier = "file_rule"
    /\ c.out.tpl = rules[Min(m)].cmd
    /\ \E k \in m : rules[k].cmd # rules[Min(m)].cmd

\* C11 witness: several rules match the file, the first of them by a tag
\* that equals the requested one only once normalized, and its command is
\* the one run
C11_Witness ==
    /\ JustCalled /\ defaults # None /\ Call.ty # None
    /\ C11_WitnessOn(Call, CallRules,
                     {j \in 1..Len(CallRules) : C11_Matches(CallRules[j], Call.file, Call.ty)})

Max(S) == CHOOSE x \in S : \A y \in S : y <= x

\* the lines of the defaults file that read as a record of extension `want`
ExtLines(lines, want) == {i \in 1..Len(lines) : IsExtLine(re_ext(lines[i]), want)}

\* the extension of the call's file, lowercased
CallExt == to_ascii_lowercase(extension(Call.file))

C12_On(c, lines, recs) ==
    (recs # {} /\ c.out.tier = "ext_default") => c.out.tpl = re_ext(lines[Max(recs)])[1].cmd

\* C12: the extension-default tier is last-write-wins: when the defaults
\* file holds several records whose extensions are equal ignoring case,
\* the command resolved for a file with that extension is the one of the
\* last such record.
C12_LastRecordWins ==
    (JustCalled /\ defaults # None) =>
        C12_On(Call, defaults[1], ExtLines(defaults[1], CallExt))

\* the command of extension `want` in an extension map
ExtMapLookup(m, want) == IF want \in DOMAIN m THEN Some(m[want]) ELSE None

C16_On(lines, want, dflt, recs) ==
    /\ recs # {} => re_file(trim(lines[Min(recs)])) = None
    /\ dflt = ExtMapLookup(parse_defaults_str(lines).ext_map, want)

\* C16: a `file:` record of the defaults file is used as a file rule only:
\* for every defaults text and every extension, the extension `file`
\* included, read_defaults never returns a command taken from a `file:`
\* line, and its result is that of the ext_map parse_defaults_str builds
\* from the same text.
C16_FileLinesAreRules ==
    (JustCalled /\ defaults # None) =>
        C16_On(defaults[1], CallExt, CallDefault, ExtLines(defaults[1], CallExt))

\* the base of the call's file
CallBase == base_and_ext(Call.file).base

C13_On(tpl, base) ==
    /\ expand_template(tpl, base) = replace(ExpandTokens(tpl, base), "%", base)
    /\ ~contains(tpl, "%") => expand_template(tpl, base) = tpl
    /\ expand_template("%pdf %md", "doc.") = "\"doc.pdf\" \"doc.md\""
    /\ expand_template("a % b", "x.") = "a x. b"

\* C13: expand_template replaces every '%' followed by a maximal run of
\* alphanumerics by the quoted base and run, then every remaining '%' by
\* the base as it is; a template without '%' is returned unchanged.
C13_ExpandTemplate ==
    (JustCalled /\ Call.out.status # "not_run") => C13_On(Call.out.tpl, CallBase)

\* the contextual placeholders and their values
ContextValues(filename, pm, requested) ==
    << <<"{{file}}", "\"" \o filename \o "\"">>,
       <<"{{file_stem}}", "\"" \o file_stem(filename) \o "\"">>,
       <<"{{dir}}", "\"" \o WorkDir \o "\"">>,
       <<"{{pm}}", pm_str(pm)>>,
       <<"{{pm_start}}", pm_start(pm)>>,
       <<"{{pm_test}}", pm_test(pm)>>,
       <<"{{pm_install}}", pm_install(pm)>>,
       <<"{{type}}", IF requested = None THEN "" ELSE normalize_type(requested[1])>> >>

RECURSIVE Simultaneous(_, _, _)
\* s starts with '%', followed by the alphanumerics up to e - 1
SimultaneousToken(s, base, vals, e) ==
    (IF e = 2 THEN base ELSE "\"" \o base \o SubSeq(s, 2, e - 1) \o "\"")
        \o Simultaneous(SubSeq(s, e, Len(s)), base, vals)

\* ks: the contextual placeholders that s starts with
SimultaneousVar(s, base, vals, ks) ==
    IF ks = {} THEN Ch(s, 1) \o Simultaneous(SubSeq(s, 2, Len(s)), base, vals)
    ELSE vals[Min(ks)][2]
             \o Simultaneous(SubSeq(s, Len(vals[Min(ks)][1]) + 1, Len(s)), base, vals)

\* every placeholder of s substituted in one left-to-right pass, the text
\* put in never read again
Simultaneous(s, base, vals) ==
    IF s = "" THEN ""
    ELSE IF Ch(s, 1) = "%" THEN SimultaneousToken(s, base, vals, AlnumRunEnd(s, 2))
    ELSE SimultaneousVar(s, base, vals,
                         {k \in 1..Len(vals) : starts_with(s, vals[k][1])})

\* C14: the text one substitution pass puts in is not read again by a later
\* pass: the command line is the template with all its placeholders
\* substituted at once, whatever the base and the context values hold.
C14_NoRescan ==
    (JustCalled /\ Call.out.status # "not_run") =>
        Call.out.cmdline =
            Some(Simultaneous(Call.out.tpl, CallBase,
                              ContextValues(Call.file, pick_package_manager(locks), Call.ty)))

\* the first line of the file that carries a directive, 0 when there is none
FirstDirectiveLine(lines) == MinOrZero({i \in 1..Len(lines) : detect(lines[i]) # None})

\* the line that closes a comment: the first of the lines `closers`, the
\* last line of the file when there is none
ClosingOf(lines, closers) == IF closers = {} THEN Len(lines) ELSE Min(closers)

\* the line that closes the comment opened at line i
ClosingLine(lines, i) ==
    ClosingOf(lines, {j \in (i + 1)..Len(lines) : contains(lines[j], "-->")})

\* the text a consumed line gives: what stands before "-->", trimmed
Fragment(line, at) == trim(IF at = 0 THEN line ELSE SubSeq(line, 1, at - 1))

JoinOne(cmd, frag) == IF frag = "" THEN cmd ELSE cmd \o " " \o frag

RECURSIVE Joined(_, _, _, _)
\* cmd followed by the non-empty fragments of lines j..close, single spaces
\* between them
Joined(cmd, lines, j, close) ==
    IF j > close THEN cmd
    ELSE Joined(JoinOne(cmd, Fragment(lines[j], find(lines[j], "-->"))), lines, j + 1, close)

\* line i opens the comment that line `close` closes; d is its directive
C15_On(c, lines, i, close, d) ==
    /\ c.out.tier = "inline" => c.out.line = i \/ c.out.line > close
    /\ c.out.line = i => c.out.tpl = Joined(d.cmd, lines, i + 1, close)
    /\ c.ty = None => c.out.tier = "inline" /\ c.out.line = i
    /\ (c.ty # None /\ d.ty # c.ty[1]) => c.out.line = 0 \/ c.out.line > close
    /\ c.out.line = i =>
           c.out.cmdline = Some(expand_vars(expand_template(Joined(d.cmd, lines, i + 1, close),
                                                            base_and_ext(c.file).base),
                                            c.file, locks, c.ty))

C15_At(c, lines, i) ==
    (i # 0 /\ is_multiline_html(lines[i])) =>
        C15_On(c, lines, i, ClosingLine(lines, i), detect(lines[i])[1])

\* C15: when the first directive of the file opens a "<!--" comment that
\* its line does not close, the lines up to and including the first one
\* that holds "-->" (or to the end of the file) are consumed: the template
\* is the directive's text followed, single spaces between them, by the
\* trimmed non-empty text of each consumed line, of the closing line only
\* what stands before "-->"; it is run as one command, and no consumed line
\* is run as a directive, also when the assembled directive is rejected for
\* its tag.
C15_MultiLineComment ==
    (JustCalled /\ Readable) => C15_At(Call, CallLines, FirstDirectiveLine(CallLines))

C15_WitnessOn(c, lines, i, close) ==
    /\ close > i + 1
    /\ \E j \in (i + 1)..close :
           detect(lines[j]) # None /\ detect(lines[j])[1].ty = c.ty[1]
    /\ c.out.tier = "inline"
    /\ c.out.line > close

C15_WitnessAt(c, lines, i) ==
    /\ i # 0
    /\ is_multiline_html(lines[i])
    /\ C15_WitnessOn(c, lines, i, ClosingLine(lines, i))

\* C15 witness: the assembled directive is rejected for its tag, a consumed
\* line reads as a directive of the requested type, and the directive run
\* is one that follows the closing line
C15_Witness ==
    /\ JustCalled /\ Readable /\ Call.ty # None
    /\ C15_WitnessAt(Call, CallLines, FirstDirectiveLine(CallLines))

\* the assertions of the unit tests of the source, on the model
SourceTests ==
    /\ is_comment("# hello") = Some("hello")
    /\ is_comment("//  hi") = Some("hi")
    /\ is_comment("<!--  spaced content  -->") = Some("spaced content")
    /\ is_comment("<!-- just the start of a comment") = Some("just the start of a comment")
    /\ is_comment("(* test *)") = Some("test")
    /\ is_comment("no comment here") = None
    /\ detect("# @build echo hi") = Some([ty |-> "", cmd |-> "echo hi"])
    /\ detect("// @build-tex xelatex %md") = Some([ty |-> "tex", cmd |-> "xelatex %md"])
    /\ detect("<!-- @build make-doc") = Some([ty |-> "", cmd |-> "make-doc"])
    /\ detect("# not a build line") = None
    /\ detect("<!-- @build -->") = None
    /\ detect("# @build") = None
    /\ expand_template("-o ../build/%pdf %md", "doc.") = "-o ../build/\"doc.pdf\" \"doc.md\""
    /\ expand_template("echo %a % %b", "base.") = "echo \"base.a\" base. \"base.b\""
    /\ expand_template("a % b", "$0x$$.") = "a $. b"
    /\ base_and_ext("name.md") = [base |-> "name.", ext |-> "md"]
    /\ base_and_ext("name") = [base |-> "name", ext |-> ""]
    /\ base_and_ext(".bashrc") = [base |-> ".bashrc", ext |-> ""]
    /\ expand_vars("{{pm}} run {{type}} {{file}} {{file_stem}} {{pm_install}}", "package.json", {"yarn.lock", "bun.lockb"}, Some("Do-Wn")) = "yarn run down \"package.json\" \"package\" yarn install"
    /\ parse_defaults_str(<<"# c", "", " md : echo a", "MD:echo b", "file:Doxy* -Do_wn : x y", "file:a.b : ", "file: z", "file:q -t", "txt :">>)
           = [ext_map |-> [k \in {"md", "file", "txt"} |-> CASE k = "md" -> "echo b" [] k = "file" -> "q -t" [] k = "txt" -> ""],
              file_rules |-> <<[pattern |-> "Doxy*", ty |-> Some("down"), cmd |-> "x y"], [pattern |-> "a.b", ty |-> None, cmd |-> ""]>>]
    /\ read_defaults(Some(<<" md : echo a", "MD:echo b ", "md: c">>), "Md") = Some("echo b ")
    /\ match_file_rule(parse_defaults_str(<<"file:Doxy* -Do_wn : x y", "file:doxyfile : z">>), "DOXYFILE", Some("DOWN")) = Some("x y")
    /\ match_file_rule(parse_defaults_str(<<"file:Doxy* -Do_wn : x y", "file:doxyfile : z">>), "DOXYFILE", None) = Some("z")
    /\ project_command_for_file(None, "Doxyfile.dev", {}) = Some("doxygen Doxyfile.dev")
    /\ project_command_for_file(Some("build"), "package.json", {"yarn.lock"}) = Some("yarn build")
    /\ project_command_for_file(Some("start"), "package.json", {"yarn.lock", "pnpm-lock.yaml"}) = Some("pnpm start")
    /\ project_command_for_file(Some("down"), "docker-compose.yml", {}) = Some("docker compose down")
    /\ build_file(None, "doc.md", Some(<<"<!-- @build echo multi", "line > multiline.txt -->", "content">>), None, {}, "exit0").cmdline = Some("echo multi line > multiline.txt")
    /\ build_file(None, "doc.md", Some(<<"no directives here">>), Some(<<"md : echo default > from_defaults">>), {}, "exit1")
            = [ok |-> TRUE, tier |-> "ext_default", tpl |-> "echo default > from_defaults", cmdline |-> Some("echo default > from_defaults"), line |-> 0, status |-> "exit1"]
    /\ build_file(Some("down"), "doc.md", Some(<<"# @build echo a", "<!-- @build-up x", "# @build-down echo q -->", "// @build-down echo %pdf">>), None, {}, "exit0").cmdline = Some("echo \"doc.pdf\"")
    /\ to_ascii_lowercase("Doc.MD") = "doc.md"
    /\ replace("a{{pm}}b{{pm}}", "{{pm}}", "npm") = "anpmbnpm"
====
